---- MODULE Spec2Model ----
(***************************************************************************)
(* Weekly agent performance dashboard (src/app.py).                        *)
(*                                                                         *)
(* The script is re-run top to bottom on every request of a session.  It   *)
(* loads the weekly aggregation (one SQL query, memoised for TTL seconds), *)
(* resolves the week in view from the session's stored index and from the  *)
(* date picked in the "jump to a date" input, and filters the table to     *)
(* that week.                                                              *)
(*                                                                         *)
(* Dates are day numbers since 1970-01-01.  Rates are held in tenths of a  *)
(* percent (ROUND(..., 1) keeps one decimal), so 40.0 % is 400.            *)
(***************************************************************************)
EXTENDS Integers, Sequences, FiniteSets, Bags, TLC

VARIABLES viewings,       \* table viewings("personId","Agent","Date"), a bag of rows
          prospects,      \* table prospects("personId","Applied","Status"), a bag of rows
          cache,          \* the st.cache_data entry of load_weekly_data
          now,            \* the clock, in seconds
          session_state,  \* st.session_state of the one session, a dict
          run             \* what the last run of the script did: its outcome and locals

vars == <<viewings, prospects, cache, now, session_state, run>>

----------------------------------------------------------------------------
(* Bounds *)

MaxViewings == 2        \* rows of viewings in the aggregation runs
MaxProspects == 2       \* rows of prospects in the aggregation runs
MaxSessionRows == 3     \* rows of viewings in the session runs
TickStep == 1800        \* seconds the clock advances in one step
MaxTicks == 2           \* clock steps in one behaviour
TargetsBefore == 1      \* days before the first dataset week that can be picked
TargetsAfter == 14      \* days after the first dataset week that can be picked

TTL == 3600

----------------------------------------------------------------------------
(* SQL values *)

SqlNull == [null |-> TRUE]
Val(x) == [null |-> FALSE, val |-> x]

RECURSIVE BagsUpTo(_, _)
BagsUpTo(Rows, n) ==
    IF n = 0 THEN {EmptyBag}
    ELSE LET S == BagsUpTo(Rows, n - 1)
         IN  S \cup {b (+) SetToBag({r}) : b \in S, r \in Rows}

----------------------------------------------------------------------------
(* Dates *)

\* A "Date" text DD/MM/YYYY, held as its three numeric fields.
DateText(dd, mm, yyyy) == [dd |-> dd, mm |-> mm, yyyy |-> yyyy]

IsLeap(y) == (y % 4 = 0 /\ y % 100 /= 0) \/ y % 400 = 0

DaysInMonth(m, y) ==
    IF m = 2 THEN (IF IsLeap(y) THEN 29 ELSE 28)
    ELSE IF m \in {4, 6, 9, 11} THEN 30 ELSE 31

\* TO_DATE raises on a field out of range.
DateParses(t) ==
    /\ t.mm \in 1..12
    /\ t.dd >= 1
    /\ t.dd <= DaysInMonth(t.mm, t.yyyy)

\* TO_DATE("Date",'DD/MM/YYYY'): the calendar date, as days since 1970-01-01.
TO_DATE(t) ==
    LET y   == IF t.mm <= 2 THEN t.yyyy - 1 ELSE t.yyyy
        era == y \div 400
        yoe == y - era * 400
        mp  == IF t.mm > 2 THEN t.mm - 3 ELSE t.mm + 9
        doy == (153 * mp + 2) \div 5 + t.dd - 1
        doe == yoe * 365 + yoe \div 4 - yoe \div 100 + doy
    IN  era * 146097 + doe - 719468

\* datetime.weekday(): Monday is 0.  1970-01-01 was a Thursday.
weekday(d) == (d + 3) % 7

\* DATE_TRUNC('week', d)::date: the Monday on or before d.
DATE_TRUNC_week(d) == d - weekday(d)

----------------------------------------------------------------------------
(* The aggregation query of load_weekly_data *)

\* Collation order of the agent names, for ORDER BY.
AgentNames == <<"A", "B">>

AgentRank(a) == CHOOSE i \in 1..Len(AgentNames) : AgentNames[i] = a

\* The rows the cleaned_viewings CTE reads: WHERE "personId" IS NOT NULL.
\* PostgreSQL evaluates the select list only on rows that pass the filter.
KeptViewings(vt) == {r \in BagToSet(vt) : r.personId /= SqlNull}

\* TO_DATE raises on one unparseable "Date", and the whole statement with it.
QueryRaises(vt) == \E r \in KeptViewings(vt) : ~DateParses(r.Date)

CleanRow(r) ==
    [personId |-> r.personId, Agent |-> r.Agent, viewing_date |-> TO_DATE(r.Date)]

\* cleaned_viewings, a bag (TO_DATE is one-to-one on the texts it accepts).
cleaned_viewings(vt) ==
    [c \in {CleanRow(r) : r \in KeptViewings(vt)} |->
        CopiesIn(CHOOSE r \in KeptViewings(vt) : CleanRow(r) = c, vt)]

\* The prospects columns of a viewing no prospect matches.
NoProspect == [personId |-> SqlNull, Applied |-> SqlNull, Status |-> SqlNull]

Matches(v, pt) == {p \in BagToSet(pt) : p.personId /= SqlNull /\ p.personId = v.personId}

\* cleaned_viewings v LEFT JOIN prospects p ON v."personId" = p."personId",
\* a bag of joined rows.
LeftJoin(cv, pt) ==
    LET matched   == {[v |-> v, p |-> p] : v \in BagToSet(cv), p \in BagToSet(pt)}
        pairs     == {j \in matched : j.p \in Matches(j.v, pt)}
        unmatched == {[v |-> v, p |-> NoProspect] :
                         v \in {x \in BagToSet(cv) : Matches(x, pt) = {}}}
    IN  [j \in pairs \cup unmatched |->
            IF j.p = NoProspect THEN CopiesIn(j.v, cv)
            ELSE CopiesIn(j.v, cv) * CopiesIn(j.p, pt)]

\* The joined rows of one GROUP BY 1,2 group.
GroupRows(J, agent, week_start) ==
    LET keep == {j \in BagToSet(J) : /\ j.v.Agent = agent
                                     /\ DATE_TRUNC_week(j.v.viewing_date) = week_start}
    IN  [j \in keep |-> J[j]]

GroupKeys(J) ==
    {<<j.v.Agent, DATE_TRUNC_week(j.v.viewing_date)>> : j \in BagToSet(J)}

\* Variant: COUNT(v."personId"), every joined row counts.
total_viewings_all_rows(G) == BagCardinality(G)

\* COUNT(DISTINCT v."personId")
total_viewings(G) == Cardinality({j.v.personId : j \in BagToSet(G)} \ {SqlNull})

\* COUNT(DISTINCT CASE WHEN p."Applied" IS NOT NULL THEN v."personId" END)
applications(G) ==
    Cardinality({IF j.p.Applied /= SqlNull THEN j.v.personId ELSE SqlNull :
                    j \in BagToSet(G)} \ {SqlNull})

\* Variant: COUNT(CASE WHEN p."Status"='Current' THEN v."personId" END),
\* every joined row counts.
tenants_all_rows(G) ==
    BagCardinality([j \in {x \in BagToSet(G) : x.p.Status = Val("Current")} |-> G[j]])

\* COUNT(DISTINCT CASE WHEN p."Status"='Current' THEN v."personId" END)
tenants(G) ==
    Cardinality({IF j.p.Status = Val("Current") THEN j.v.personId ELSE SqlNull :
                    j \in BagToSet(G)} \ {SqlNull})

\* ROUND(n::NUMERIC / NULLIF(d,0) * 100, 1), in tenths of a percent: NULL on
\* a zero denominator, else rounded half away from zero.
RateOf(n, d) ==
    IF d = 0 THEN SqlNull ELSE Val((2000 * n + d) \div (2 * d))

WeeklyRow(J, agent, week_start) ==
    LET G == GroupRows(J, agent, week_start)
        tv == total_viewings(G)
        ap == applications(G)
        tn == tenants(G)
    IN  [agent |-> agent,
         week_start |-> week_start,
         week_end |-> week_start + 6,
         total_viewings |-> tv,
         applications |-> ap,
         tenants |-> tn,
         view_to_app_rate |-> RateOf(ap, tv),
         app_to_tenant_rate |-> RateOf(tn, ap),
         total_conversion_rate |-> RateOf(tn, tv)]

\* ORDER BY week_start, agent
KeyBefore(k1, k2) ==
    \/ k1[2] < k2[2]
    \/ k1[2] = k2[2] /\ AgentRank(k1[1]) <= AgentRank(k2[1])

RECURSIVE OrderKeys(_)
OrderKeys(K) ==
    IF K = {} THEN <<>>
    ELSE LET first == CHOOSE k \in K : \A o \in K : KeyBefore(k, o)
         IN  <<first>> \o OrderKeys(K \ {first})

\* The table the query returns when it does not raise.
QueryResult(vt, pt) ==
    LET J    == LeftJoin(cleaned_viewings(vt), pt)
        keys == OrderKeys(GroupKeys(J))
    IN  [i \in 1..Len(keys) |-> WeeklyRow(J, keys[i][1], keys[i][2])]

----------------------------------------------------------------------------
(* load_weekly_data behind st.cache_data(ttl=3600) *)

NoEntry == [valid |-> FALSE, time |-> 0, df |-> <<>>]

\* Variant: an entry that never expires.
CacheHit_no_expiry(c, t) == c.valid

\* The entry is served until TTL seconds after it was stored.
CacheHit(c, t) == c.valid /\ t < c.time + TTL

\* One call of the cached function at time t: the table it returns (or that
\* it raised), the cache after the call, and how many times the query ran.
load_weekly_data(c, t, vt, pt) ==
    IF CacheHit(c, t)
    THEN [raised |-> FALSE, df |-> c.df, cache |-> c, queries |-> 0]
    ELSE IF QueryRaises(vt)
    THEN [raised |-> TRUE, df |-> <<>>, cache |-> c, queries |-> 1]
    ELSE LET df == QueryResult(vt, pt)
         IN  [raised |-> FALSE, df |-> df,
              cache |-> [valid |-> TRUE, time |-> t, df |-> df], queries |-> 1]

----------------------------------------------------------------------------
(* Week selection *)

RECURSIVE sorted(_)
sorted(S) ==
    IF S = {} THEN <<>>
    ELSE LET lo == CHOOSE x \in S : \A y \in S : x <= y
         IN  <<lo>> \o sorted(S \ {lo})

\* sorted(df["week_start"].unique())
valid_weeks(df) == sorted({df[i].week_start : i \in DOMAIN df})

\* An integer position a pandas Index accepts: negative ones count from the
\* end, anything else raises IndexError.
IndexAccepted(i, n) == -n <= i /\ i < n

GetItem(s, i) == IF i >= 0 THEN s[i + 1] ELSE s[Len(s) + i + 1]

abs(x) == IF x < 0 THEN -x ELSE x

\* Variant: the position of the last smallest element.
argmin_last(s) ==
    (CHOOSE i \in DOMAIN s : /\ \A j \in DOMAIN s : s[i] <= s[j]
                             /\ \A j \in (i + 1)..Len(s) : s[j] > s[i]) - 1

\* numpy argmin: the position (from 0) of the first smallest element.
argmin(s) ==
    (CHOOSE i \in DOMAIN s : /\ \A j \in DOMAIN s : s[i] <= s[j]
                             /\ \A j \in 1..(i - 1) : s[j] > s[i]) - 1

\* Variant: the position counted from 1.
index_from_one(s, x) ==
    CHOOSE i \in DOMAIN s : s[i] = x /\ \A j \in 1..(i - 1) : s[j] /= x

\* list.index: the position (from 0) of the first occurrence.
index(s, x) ==
    (CHOOSE i \in DOMAIN s : s[i] = x /\ \A j \in 1..(i - 1) : s[j] /= x) - 1

\* manual_date - pd.to_timedelta(manual_date.weekday(), unit="d")
snap_week(manual_date) == manual_date - weekday(manual_date)

\* valid_weeks[(abs(valid_weeks - snap_week)).argmin()]
nearest_week(weeks, snap) ==
    GetItem(weeks, argmin([i \in DOMAIN weeks |-> abs(weeks[i] - snap)]))

\* df[df["week_start"] == selected_week]
week_df(df, selected_week) ==
    SelectSeq(df, LAMBDA r : r.week_start = selected_week)

----------------------------------------------------------------------------
(* Inputs *)

FirstWeek == TO_DATE(DateText(1, 1, 2024))

\* The dates the date input can hand over.
TargetDates == (FirstWeek - TargetsBefore)..(FirstWeek + TargetsAfter)

LoadViewingRows ==
    {[personId |-> pid, Agent |-> a, Date |-> d] :
        pid \in {SqlNull, Val(1), Val(2)},
        a \in {"A", "B"},
        d \in {DateText(1, 1, 2024), DateText(3, 1, 2024),
               DateText(8, 1, 2024), DateText(31, 2, 2024)}}

LoadProspectRows ==
    {[personId |-> pid, Applied |-> ap, Status |-> st] :
        pid \in {Val(1), Val(2)},
        ap \in {SqlNull, Val("yes")},
        st \in {Val("Current"), Val("Prospect")}}

SessionViewingRows ==
    {[personId |-> Val(1), Agent |-> "A", Date |-> d] :
        d \in {DateText(3, 1, 2024), DateText(8, 1, 2024),
               DateText(15, 1, 2024), DateText(31, 2, 2024)}}

SessionViewingTables == BagsUpTo(SessionViewingRows, MaxSessionRows)

SessionProspects ==
    SetToBag({[personId |-> Val(1), Applied |-> Val("yes"), Status |-> Val("Current")]})

----------------------------------------------------------------------------
(* One run of the script *)

\* Lines 87-127 on the loaded table df: resolve the week in view from the
\* stored index and the picked date, filter.
Resolve(call, df, weeks, picked) ==
    LET current_index == Len(weeks) - 1
        state == IF "selected_index" \in DOMAIN session_state
                 THEN session_state
                 ELSE [selected_index |-> current_index]
    IN  IF ~IndexAccepted(state.selected_index, Len(weeks))
        THEN /\ run' = [outcome |-> "IndexError", at |-> now,
                        queries |-> call.queries]
             /\ session_state' = state
        ELSE \E nearest \in {nearest_week(weeks, snap_week(picked))} :
             \E rows \in {week_df(df, nearest)} :
                LET start_of_week == IF rows /= <<>> THEN rows[1].week_start
                                     ELSE nearest
                IN  /\ session_state' = [selected_index |-> index(weeks, nearest)]
                    /\ run' = [outcome |-> IF rows = <<>> THEN "no_data" ELSE "rendered",
                               at |-> now,
                               queries |-> call.queries,
                               manual_date |-> picked,
                               snap_week |-> snap_week(picked),
                               nearest_week |-> nearest,
                               week_df |-> rows,
                               start_of_week |-> start_of_week,
                               end_of_week |-> start_of_week + 6]

\* Lines 81-127: load, resolve the week in view, filter.
Request(picked) ==
    \E call \in {load_weekly_data(cache, now, viewings, prospects)} :
        /\ cache' = call.cache
        /\ UNCHANGED <<viewings, prospects, now>>
        /\ IF call.raised
           THEN /\ run' = [outcome |-> "DatabaseError", at |-> now,
                           queries |-> call.queries]
                /\ UNCHANGED session_state
           ELSE \E weeks \in {valid_weeks(call.df)} :
                    Resolve(call, call.df, weeks, picked)

\* Line 81 alone: df = load_weekly_data().
Load ==
    \E call \in {load_weekly_data(cache, now, viewings, prospects)} :
        /\ cache' = call.cache
        /\ run' = [outcome |-> IF call.raised THEN "DatabaseError" ELSE "loaded",
                   at |-> now, queries |-> call.queries]
        /\ UNCHANGED <<viewings, prospects, now, session_state>>

\* Time passes.
Tick ==
    /\ now + TickStep <= MaxTicks * TickStep
    /\ now' = now + TickStep
    /\ UNCHANGED <<viewings, prospects, cache, session_state, run>>

\* Another client of the database inserts a viewing.
DbInsert(r) ==
    /\ BagCardinality(viewings) < MaxSessionRows
    /\ viewings' = viewings (+) SetToBag({r})
    /\ UNCHANGED <<prospects, cache, now, session_state, run>>

\* Another client of the database deletes a viewing.
DbDelete(r) ==
    /\ BagIn(r, viewings)
    /\ viewings' = viewings (-) SetToBag({r})
    /\ UNCHANGED <<prospects, cache, now, session_state, run>>

InitRest ==
    /\ cache = NoEntry
    /\ now = 0
    /\ session_state = <<>>
    /\ run = [outcome |-> "none", at |-> 0, queries |-> 0]

Init ==
    /\ viewings \in SessionViewingTables
    /\ prospects = SessionProspects
    /\ InitRest

Next ==
    \/ \E picked \in TargetDates : Request(picked)
    \/ Tick
    \/ \E r \in SessionViewingRows : DbInsert(r)
    \/ \E r \in SessionViewingRows : DbDelete(r)

Spec == Init /\ [][Next]_vars

InitLoad ==
    /\ viewings \in BagsUpTo(LoadViewingRows, MaxViewings)
    /\ prospects \in BagsUpTo(LoadProspectRows, MaxProspects)
    /\ InitRest

NextLoad == Load

SpecLoad == InitLoad /\ [][NextLoad]_vars

----------------------------------------------------------------------------
(* Properties of the rows load_weekly_data produces (SpecLoad) *)

Rows == {cache.df[i] : i \in DOMAIN cache.df}

Rates(r) == {r.view_to_app_rate, r.app_to_tenant_rate, r.total_conversion_rate}

\* C1: in every row produced by the load, a rate whose denominator is 0 is 0;
\* a row with applications = 0 has app_to_tenant_rate = 0, not NULL.
C1_ZeroDenominatorRateIsZero ==
    cache.valid =>
        \A r \in Rows :
            /\ r.total_viewings = 0 =>
                   r.view_to_app_rate = Val(0) /\ r.total_conversion_rate = Val(0)
            /\ r.applications = 0 => r.app_to_tenant_rate = Val(0)

\* The viewings whose "Date" parses.
ParseableViewings ==
    [r \in {x \in BagToSet(viewings) : DateParses(x.Date)} |-> viewings[r]]

\* C4: a viewing whose date does not parse is dropped and the load goes on:
\* it returns the rows computed from all the other viewings and does not fail.
C4_UnparseableDateRowDropped ==
    run.outcome \in {"loaded", "DatabaseError"} =>
        /\ run.outcome = "loaded"
        /\ cache.df = QueryResult(ParseableViewings, prospects)

\* C5: in every row produced by the load, each rate lies in [0, 100] (stated
\* of the rates that have a value; a NULL rate is the subject of C1).
C5_RatesWithinPercentRange ==
    cache.valid =>
        \A r \in Rows : \A x \in Rates(r) :
            ~x.null => 0 <= x.val /\ x.val <= 1000

\* C6: in every row produced by the load, tenants <= total_viewings and
\* applications <= total_viewings.
C6_CountsWithinViewings ==
    cache.valid =>
        \A r \in Rows :
            /\ r.tenants <= r.total_viewings
            /\ r.applications <= r.total_viewings

\* A loaded row whose one person is matched by two prospect records, both
\* 'Current' and applied.
C6_Witness ==
    /\ cache.valid
    /\ BagCardinality(prospects) = 2
    /\ \A p \in BagToSet(prospects) : p.Status = Val("Current") /\ p.Applied /= SqlNull
    /\ \E r \in Rows : r.total_viewings = 1 /\ r.tenants = 1 /\ r.applications = 1

\* The viewing events (non-null personId) of one agent in one week.
EventsOf(agent, week_start) ==
    {r \in BagToSet(viewings) : /\ r.personId /= SqlNull
                                /\ r.Agent = agent
                                /\ DATE_TRUNC_week(TO_DATE(r.Date)) = week_start}

\* C10: there is exactly one row per (agent, week_start) pair that has a
\* viewing event and none for a pair without, and the row's total_viewings is
\* the number of distinct personIds among the pair's events.
C10_OneRowPerGroupDistinctPersons ==
    cache.valid =>
        \A a \in {"A", "B"} :
            \A w \in {r.week_start : r \in Rows}
                       \cup {DATE_TRUNC_week(TO_DATE(v.Date)) : v \in BagToSet(viewings)} :
                LET at == {i \in DOMAIN cache.df :
                              cache.df[i].agent = a /\ cache.df[i].week_start = w}
                    persons == {v.personId : v \in EventsOf(a, w)}
                IN  /\ EventsOf(a, w) = {} => at = {}
                    /\ EventsOf(a, w) /= {} =>
                           /\ Cardinality(at) = 1
                           /\ \A i \in at : cache.df[i].total_viewings = Cardinality(persons)

\* One person with two viewing events in the week and two matching prospect
\* records, loaded as a single row.
C10_Witness ==
    /\ cache.valid
    /\ Len(cache.df) = 1
    /\ cache.df[1].total_viewings = 1
    /\ BagCardinality(viewings) = 2
    /\ BagCardinality(prospects) = 2
    /\ \A v \in BagToSet(viewings) : v.personId = Val(1)
    /\ \A p \in BagToSet(prospects) : p.personId = Val(1)

----------------------------------------------------------------------------
(* Properties of the runs of the script (Spec) *)

\* The run got past the read of the stored index and made its selection.
Selected == run.outcome \in {"rendered", "no_data"}

Weeks == {r.week_start : r \in Rows}

\* A step that is a run of the script: the clock and the tables stand still.
RunStep == UNCHANGED <<viewings, prospects, now>>

\* C2: the selection snaps the picked date to the Monday of its week and
\* returns the dataset week nearest to it, the earlier one of two equally near.
C2_NearestWeekEarliestOnTie ==
    Selected =>
        /\ run.snap_week <= run.manual_date
        /\ run.manual_date < run.snap_week + 7
        /\ weekday(run.snap_week) = 0
        /\ run.nearest_week \in Weeks
        /\ \A w \in Weeks :
              \/ abs(run.nearest_week - run.snap_week) < abs(w - run.snap_week)
              \/ /\ abs(run.nearest_week - run.snap_week) = abs(w - run.snap_week)
                 /\ run.nearest_week <= w

\* Weeks 2024-01-01 and 2024-01-15 only, 2024-01-10 picked: the snap
\* 2024-01-08 is as far from both, and the earlier one is returned.
C2_Witness ==
    /\ Selected
    /\ Weeks = {FirstWeek, FirstWeek + 14}
    /\ run.manual_date = FirstWeek + 9
    /\ run.snap_week = FirstWeek + 7
    /\ run.nearest_week = FirstWeek

\* C3: with an empty dataset a run ends in the empty state ("no data for this
\* week"), not in an exception.
C3_EmptyDatasetEmptyState ==
    (run.outcome \notin {"none", "DatabaseError"} /\ cache.valid /\ cache.df = <<>>)
        => run.outcome = "no_data"

\* C7: a run within TTL seconds of the last load reuses the cached table and
\* runs no query; any other run runs the query exactly once and, when it
\* succeeds, stores its result.
C7_QueryOnlyOnMiss ==
    [][RunStep =>
          LET fresh == cache.valid /\ now - cache.time < TTL
          IN  /\ fresh => run'.queries = 0 /\ cache' = cache
              /\ ~fresh =>
                    /\ run'.queries = 1
                    /\ run'.outcome /= "DatabaseError" =>
                          cache' = [valid |-> TRUE, time |-> now,
                                    df |-> QueryResult(viewings, prospects)]]_vars

\* A run served from an entry that is older than 0 and younger than TTL.
C7_Witness ==
    /\ run.outcome = "rendered"
    /\ run.queries = 0
    /\ cache.valid
    /\ run.at > cache.time
    /\ run.at < cache.time + TTL

\* C8: a run whose stored index is outside [0, len(weeks)) fails with an
\* index error and leaves the stored selection as it was, a negative stored
\* index included.
C8_BadIndexRejected ==
    [][(/\ RunStep
        /\ "selected_index" \in DOMAIN session_state
        /\ run'.outcome /= "DatabaseError"
        /\ session_state.selected_index
               \notin 0..(Len(valid_weeks(cache'.df)) - 1))
          => /\ run'.outcome = "IndexError"
             /\ session_state' = session_state]_vars

\* C9: after a selection the returned week is a week of the dataset, the
\* stored index is in range and names that week, the filter keeps at least
\* one row, and every kept row ends on the window's end, start + 6 days.
C9_SelectionInDataset ==
    Selected =>
        LET weeks == valid_weeks(cache.df)
            i == session_state.selected_index
        IN  /\ run.nearest_week \in Weeks
            /\ 0 <= i /\ i < Len(weeks)
            /\ weeks[i + 1] = run.nearest_week
            /\ run.outcome = "rendered"
            /\ run.week_df /= <<>>
            /\ run.end_of_week = run.nearest_week + 6
            /\ \A k \in DOMAIN run.week_df :
                  /\ run.week_df[k].week_start = run.nearest_week
                  /\ run.week_df[k].week_end = run.end_of_week

\* Three weeks in the dataset, a date off the grid picked, the middle week
\* selected.
C9_Witness ==
    /\ run.outcome = "rendered"
    /\ Len(valid_weeks(cache.df)) = 3
    /\ session_state.selected_index = 1
    /\ run.manual_date /= run.nearest_week
    /\ run.nearest_week = FirstWeek + 7

====
